---- MODULE Spec2Model ----
(***************************************************************************)
(* extreme_optics_influxdb.py: one run of the script.                      *)
(*   get_optics_data -> fix_extreme_inf_values -> create_lineprotocol_data *)
(*   -> post_influx_data                                                   *)
(* The management interface (exsh.clicmd), the XML text of the reply and   *)
(* the network are the environment: their outcomes are drawn from small    *)
(* sets.  Everything the script computes is computed here as it does.      *)
(***************************************************************************)
EXTENDS Integers, Sequences, FiniteSets, TLC

VARIABLES
    xml_reply,      \* outcome of exsh.clicmd("show ports transceiver information")
    ssl_enabled,    \* args.ssl_enabled
    pc,             \* position of the script
    ports_parsed,   \* get_optics_data: the parsed fragments
    pos,            \* get_optics_data: fragments ports_parsed_iter has handed out
    ports_data,     \* get_optics_data: the PortRecords built so far
    data,           \* __main__: what get_optics_data returned
    line_data,      \* create_lineprotocol_data: the lines before the join
    payload,        \* __main__: line_data, the joined text
    cli,            \* every exsh.clicmd issued after the show command
    net,            \* socket-level events of post_influx_data, in order
    status,         \* response.status (0: no response was read)
    exc             \* the exception that escaped to the interpreter ("" if none)

vars == <<xml_reply, ssl_enabled, pc, ports_parsed, pos, ports_data, data,
          line_data, payload, cli, net, status, exc>>

----------------------------------------------------------------------------
(* Bounds of the model *)

\* longest reply, in XML documents
MaxFrags == 3

\* SpecEnc: most PortRecords in a list, most channels of a PortRecord
MaxPorts == 2
MaxChannels == 2

----------------------------------------------------------------------------
(* Program constants and the run's arguments *)

EXTREME_SO_VRID == 37
EXTREME_VR_DEFAULT_ID == 2

\* METRICS: element name -> field key
METRICS == ("txPower" :> "tx-power") @@ ("rxPower" :> "rx-power") @@
           ("txBiasCurrent" :> "tx-current")

device_name == "sw01"
influxdb_host == "influx"
influxdb_port == "8086"
target_vr == EXTREME_VR_DEFAULT_ID

INF == "-9999.000000"

----------------------------------------------------------------------------
(* The reply: a sequence of XML documents.  A document is                  *)
(*   [xml |-> "bad"]                  text et.fromstring cannot parse      *)
(*   [xml |-> "ok", el |-> f]         a show_ports_transceiver element     *)
(*                                    whose children are DOMAIN f, f[c]    *)
(*                                    the text of child c                  *)
(* The port text is a sequence of characters, the regular expression of    *)
(* line 74 reads it; every other text is a string.                         *)

FieldNames == {"port", "portErrorString", "partNumberIsValid", "numChannels",
               "temp", "voltageAux1", "txPower", "rxPower", "txBiasCurrent"}

ExpectedFields == FieldNames \ {"portErrorString"}

Full(port, valid, n, tx, rx, cur) ==
    [port |-> port, partNumberIsValid |-> valid, numChannels |-> n,
     temp |-> "35.0", voltageAux1 |-> "3.3",
     txPower |-> tx, rxPower |-> rx, txBiasCurrent |-> cur]

Without(f, c) == [k \in (DOMAIN f) \ {c} |-> f[k]]

Doc(f) == [xml |-> "ok", el |-> f]

BadDoc == [xml |-> "bad", el |-> <<>>]

OneChan == Full(<<"3">>, "1", "1", "1.0", INF, "5.0")
TwoChan == Full(<<"2", ":", "5">>, "1", "2", INF, "-2.0", INF)

Docs ==
    {BadDoc,
     Doc(<<>>),                                                   \* no children
     Doc(OneChan),
     Doc(TwoChan),
     Doc(Full(<<"4">>, "1", "0", "1.0", "-2.0", "5.0")),          \* numChannels 0
     Doc(Full(<<"3">>, "0", "1", "1.0", "-2.0", "5.0")),          \* part not valid
     Doc([port |-> <<"7">>, portErrorString |-> "No optic"]),     \* error, bare
     Doc(OneChan @@ [portErrorString |-> "Unsupported"])}         \* error, full
    \cup {Doc(Without(OneChan, c)) : c \in ExpectedFields}

RECURSIVE SeqsUpTo(_, _)
SeqsUpTo(S, n) ==
    IF n = 0 THEN {<<>>}
    ELSE LET shorter == SeqsUpTo(S, n - 1)
         IN  shorter \cup {Append(s, x) : s \in {t \in shorter : Len(t) = n - 1}, x \in S}

Replies ==
    {[kind |-> "RuntimeError", docs |-> <<>>], [kind |-> "None", docs |-> <<>>]}
    \cup {[kind |-> "str", docs |-> d] : d \in SeqsUpTo(Docs, MaxFrags)}

----------------------------------------------------------------------------
(* get_optics_data *)

\* line 57: the reply split into one text per document; "".split('\n') is ['']
PortsRaw(reply) == IF reply.docs = <<>> THEN <<BadDoc>> ELSE reply.docs

\* lines 63-64: et.fromstring on every text; any failure is raised before the loop
ParseFails(raw) == \E i \in 1..Len(raw) : raw[i].xml # "ok"

PortsParsed(raw) == [i \in 1..Len(raw) |-> raw[i].el]

Has(el, c) == c \in DOMAIN el

\* line 71
HasOptic(el) ==
    /\ Cardinality(DOMAIN el) > 0
    /\ ~Has(el, "portErrorString")
    /\ el["partNumberIsValid"] = "1"

\* line 71 raises IndexError: partNumberIsValid is read and is not there
OpticTestRaises(el) ==
    /\ Cardinality(DOMAIN el) > 0
    /\ ~Has(el, "portErrorString")
    /\ ~Has(el, "partNumberIsValid")

IsDigit(ch) == ch \in {"0", "1", "2", "3", "4", "5", "6", "7", "8", "9"}

\* line 74: re.match('^\d+:\d+$', name)
ReMatch(name) ==
    \E i \in 2..(Len(name) - 1) :
        /\ name[i] = ":"
        /\ \A j \in 1..Len(name) : j # i => IsDigit(name[j])

\* lines 72-76
PortName(raw) == IF ReMatch(raw) THEN raw ELSE <<"1", ":">> \o raw

\* line 79: int(text)
ParseInt(text) ==
    CASE text = "0" -> 0
      [] text = "1" -> 1
      [] text = "2" -> 2
      [] text = "3" -> 3

\* lines 88-90: the three metrics of one fragment, under their field keys
ChannelOf(el) ==
    [k \in {METRICS[m] : m \in DOMAIN METRICS} |->
        el[CHOOSE m \in DOMAIN METRICS : METRICS[m] = k]]

\* lines 82-92: the channel loop from iteration chan on.  st is
\* [data, pos, exc]: the record so far, the iterator's position, and the
\* exception raised ("" while none); cur is the index of curr_chan.
RECURSIVE ChanLoop(_, _, _, _, _)
ChanLoop(parsed, num_channels, chan, cur, st) ==
    IF chan >= num_channels THEN st
    ELSE
      LET curr_chan == parsed[cur]
          top == IF chan = 0
                 THEN [temperature |-> curr_chan["temp"],
                       voltage |-> curr_chan["voltageAux1"]]
                 ELSE <<>>
          chans == [c \in (DOMAIN st.data.channels) \cup {chan} |->
                       IF c = chan THEN ChannelOf(curr_chan)
                       ELSE st.data.channels[c]]
          d == [st.data EXCEPT !.channels = chans] @@ top
      IN
      IF chan = 0 /\ ~(Has(curr_chan, "temp") /\ Has(curr_chan, "voltageAux1"))
      THEN [st EXCEPT !.exc = "IndexError"]
      ELSE IF \E m \in DOMAIN METRICS : ~Has(curr_chan, m)
      THEN [st EXCEPT !.exc = "IndexError"]
      ELSE IF chan + 1 = num_channels
      THEN [data |-> d, pos |-> st.pos, exc |-> ""]
      ELSE IF st.pos >= Len(parsed)
      THEN [st EXCEPT !.exc = "StopIteration"]
      ELSE ChanLoop(parsed, num_channels, chan + 1, st.pos + 1,
                    [data |-> d, pos |-> st.pos + 1, exc |-> ""])

\* PortIteration dropping the port whose fragments cannot be read instead of
\* letting the exception out
PortIterationLenient(parsed, p) ==
    LET port == parsed[p]
        skip == [data |-> <<>>, pos |-> p, exc |-> "", append |-> FALSE]
    IN
    IF OpticTestRaises(port) THEN skip
    ELSE IF ~HasOptic(port) THEN skip
    ELSE IF ~Has(port, "port") \/ ~Has(port, "numChannels") THEN skip
    ELSE
      LET start == [data |-> [name |-> PortName(port["port"]), channels |-> <<>>],
                    pos |-> p, exc |-> ""]
          st == ChanLoop(parsed, ParseInt(port["numChannels"]), 0, p, start)
      IN [data |-> st.data, pos |-> st.pos, exc |-> "", append |-> st.exc = ""]

\* lines 68-94: one iteration of the loop over ports_parsed_iter, the channel
\* loop included.  p is the iterator's position after the loop took `port`.
\* The result is [data, pos, exc, append]: append says line 94 was reached.
PortIteration(parsed, p) ==
    LET port == parsed[p]
        skip == [data |-> <<>>, pos |-> p, exc |-> "", append |-> FALSE]
    IN
    IF OpticTestRaises(port) THEN [skip EXCEPT !.exc = "IndexError"]
    ELSE IF ~HasOptic(port) THEN skip
    ELSE IF ~Has(port, "port") \/ ~Has(port, "numChannels")
         THEN [skip EXCEPT !.exc = "IndexError"]
    ELSE
      LET start == [data |-> [name |-> PortName(port["port"]), channels |-> <<>>],
                    pos |-> p, exc |-> ""]
          st == ChanLoop(parsed, ParseInt(port["numChannels"]), 0, p, start)
      IN [data |-> st.data, pos |-> st.pos, exc |-> st.exc, append |-> st.exc = ""]

\* line 96
Returned(ports) == [kind |-> "list", ports |-> ports]

\* lines 48, 53: a bare return
ReturnedNone == [kind |-> "None", ports |-> <<>>]

Unset == [kind |-> "unset", ports |-> <<>>]

----------------------------------------------------------------------------
(* fix_extreme_inf_values *)

\* FixChannel rewriting every sentinel it meets, tx-current included
FixChannelEveryKey(channel) ==
    [k \in DOMAIN channel |->
        IF channel[k] # INF THEN channel[k]
        ELSE IF k = "rx-power" THEN "-40.000000" ELSE "0.00"]

\* lines 105-108
FixChannel(channel) ==
    [channel EXCEPT !["rx-power"] = IF @ = INF THEN "-40.000000" ELSE @,
                    !["tx-power"] = IF @ = INF THEN "0.00" ELSE @]

\* lines 103-109
FixExtremeInfValues(ports) ==
    [p \in DOMAIN ports |->
        [ports[p] EXCEPT !.channels = [c \in DOMAIN @ |-> FixChannel(@[c])]]]

----------------------------------------------------------------------------
(* create_lineprotocol_data *)

\* The order in which a dict hands out its keys is the interpreter's.  The
\* channels dict has the integer keys 0..n-1, which CPython 2 stores and
\* hands out in ascending order; the order of the string keys follows their
\* hashes and is one of these, the same one for every dict of a run.
PortKeyOrders == {<<"temperature", "voltage">>, <<"voltage", "temperature">>}

ChanKeys == {METRICS[m] : m \in DOMAIN METRICS}

ChanKeyOrders == {o \in [1..3 -> ChanKeys] : \A i, j \in 1..3 : o[i] = o[j] => i = j}

RECURSIVE Concat(_)
Concat(strs) == IF strs = <<>> THEN "" ELSE Head(strs) \o Concat(Tail(strs))

\* sep.join(strs)
RECURSIVE Join(_, _)
Join(sep, strs) ==
    IF strs = <<>> THEN ""
    ELSE IF Len(strs) = 1 THEN strs[1]
    ELSE strs[1] \o sep \o Join(sep, Tail(strs))

\* line 119
Tags(device, port) == "device=" \o device \o ",port=" \o Concat(port.name)

\* line 120: key=value of every key but name and channels, in the dict's order
PortFields(port, order) ==
    LET keys == SelectSeq(order, LAMBDA k : k \in DOMAIN port)
    IN  Join(",", [i \in 1..Len(keys) |-> keys[i] \o "=" \o port[keys[i]]])

\* lines 126-128
ChanFields(chan_data, order) ==
    LET keys == SelectSeq(order, LAMBDA k : k \in DOMAIN chan_data)
    IN  Join(",", [i \in 1..Len(keys) |-> keys[i] \o "=" \o chan_data[keys[i]]])

\* lines 123-130: the lines of the channels from index c on
RECURSIVE ChannelLines(_, _, _, _)
ChannelLines(device, port, c, order) ==
    IF c \notin DOMAIN port.channels THEN <<>>
    ELSE <<[measurement |-> "optics_channels",
            tags |-> Join(",", <<Tags(device, port), "channel=" \o ToString(c)>>),
            fields |-> ChanFields(port.channels[c], order)]>>
         \o ChannelLines(device, port, c + 1, order)

\* LineData appending a port's line after the lines of its channels
RECURSIVE LineDataPortLast(_, _, _, _)
LineDataPortLast(ports, device, porder, corder) ==
    IF ports = <<>> THEN <<>>
    ELSE ChannelLines(device, Head(ports), 0, corder)
         \o <<[measurement |-> "optics",
               tags |-> Tags(device, Head(ports)),
               fields |-> PortFields(Head(ports), porder)]>>
         \o LineDataPortLast(Tail(ports), device, porder, corder)

\* lines 117-130: line_data, each line in its three parts
RECURSIVE LineData(_, _, _, _)
LineData(ports, device, porder, corder) ==
    IF ports = <<>> THEN <<>>
    ELSE <<[measurement |-> "optics",
            tags |-> Tags(device, Head(ports)),
            fields |-> PortFields(Head(ports), porder)]>>
         \o ChannelLines(device, Head(ports), 0, corder)
         \o LineData(Tail(ports), device, porder, corder)

\* lines 121, 129-130: one element of line_data as the code appends it
LineText(l) == l.measurement \o "," \o l.tags \o " " \o l.fields

\* line 132
CreateLineprotocolData(lines) ==
    Join("\n", [i \in 1..Len(lines) |-> LineText(lines[i])])

----------------------------------------------------------------------------
(* post_influx_data *)

Ev(op, arg) == [op |-> op, arg |-> arg, ok |-> TRUE]

\* MonkeyConnect setting the socket option on the connected socket
MonkeyConnectThenBind(vr) ==
    <<Ev("socket", <<>>),
      Ev("connect", <<influxdb_host, influxdb_port>>),
      Ev("setsockopt", <<EXTREME_SO_VRID, vr>>)>>

\* lines 138-142: the patched HTTPConnection.connect
MonkeyConnect(vr) ==
    <<Ev("socket", <<>>),
      Ev("setsockopt", <<EXTREME_SO_VRID, vr>>),
      Ev("connect", <<influxdb_host, influxdb_port>>)>>

\* lines 155-159: HTTPSConnection.connect calls HTTPConnection.connect and
\* then wraps the socket; HTTPConnection only connects
Connect(ssl, vr) ==
    MonkeyConnect(vr) \o (IF ssl THEN <<Ev("wrap_socket", <<>>)>> ELSE <<>>)

\* line 163: conn.request connects, then sends the POST
Request(ssl, vr, body) ==
    Connect(ssl, vr) \o <<Ev("send", <<"POST", "/write?db=optics", body>>)>>

\* the first k events of evs, the k-th having raised
FailingAt(evs, k) ==
    [i \in 1..k |-> IF i = k THEN [evs[i] EXCEPT !.ok = FALSE] ELSE evs[i]]

LogMessage(parts) == [verb |-> "create log message", parts |-> parts]

\* what the server answers; 0: getresponse raises
Responses == {0, 204, 200, 400, 500}

\* PostInfluxData sending the request again when the status is not 204
PostInfluxDataRetry(host, port, vr, ssl, body, fail_at, resp) ==
    LET evs == Request(ssl, vr, body)
    IN
    IF fail_at > 0
    THEN [net |-> FailingAt(evs, fail_at),
          cli |-> <<LogMessage(<<"Unable to create connection to ", host, ":", port,
                                 " - ", "repr(e)">>)>>,
          status |-> 0, exc |-> ""]
    ELSE IF resp = 0
    THEN [net |-> evs \o <<[Ev("getresponse", <<>>) EXCEPT !.ok = FALSE]>>,
          cli |-> <<>>, status |-> 0, exc |-> "HTTPException"]
    ELSE IF resp # 204
    THEN [net |-> evs \o <<Ev("getresponse", <<>>)>> \o evs \o <<Ev("getresponse", <<>>)>>,
          cli |-> <<LogMessage(<<"Unable to POST data to ", host, ":", port>>)>>,
          status |-> resp, exc |-> ""]
    ELSE [net |-> evs \o <<Ev("getresponse", <<>>)>>,
          cli |-> <<>>, status |-> resp, exc |-> ""]

\* lines 152-173.  fail_at is the step of conn.request that raises (0: none),
\* resp the outcome of conn.getresponse.  The result is what the call leaves:
\* the events, the clicmd calls, response.status and the exception escaping.
PostInfluxData(host, port, vr, ssl, body, fail_at, resp) ==
    LET evs == Request(ssl, vr, body)
    IN
    IF fail_at > 0
    THEN [net |-> FailingAt(evs, fail_at),
          cli |-> <<LogMessage(<<"Unable to create connection to ", host, ":", port,
                                 " - ", "repr(e)">>)>>,
          status |-> 0, exc |-> ""]
    ELSE IF resp = 0
    THEN [net |-> evs \o <<[Ev("getresponse", <<>>) EXCEPT !.ok = FALSE]>>,
          cli |-> <<>>, status |-> 0, exc |-> "HTTPException"]
    ELSE [net |-> evs \o <<Ev("getresponse", <<>>)>>,
          cli |-> IF resp # 204
                  THEN <<LogMessage(<<"Unable to POST data to ", host, ":", port>>)>>
                  ELSE <<>>,
          status |-> resp, exc |-> ""]

----------------------------------------------------------------------------
(* The run *)

Init ==
    /\ xml_reply \in Replies
    /\ ssl_enabled \in BOOLEAN
    /\ pc = "get_optics_data"
    /\ ports_parsed = <<>>
    /\ pos = 0
    /\ ports_data = <<>>
    /\ data = Unset
    /\ line_data = <<>>
    /\ payload = ""
    /\ cli = <<>>
    /\ net = <<>>
    /\ status = 0
    /\ exc = ""

\* lines 44-48: the command raised RuntimeError; the handler issues a text
\* that is not a log command and returns None
CommandFailed ==
    /\ pc = "get_optics_data"
    /\ xml_reply.kind = "RuntimeError"
    /\ cli' = Append(cli, [verb |-> "Command",
                           parts |-> <<"\"show ports transceiver information\" is invalid">>])
    /\ data' = ReturnedNone
    /\ pc' = "main"
    /\ UNCHANGED <<xml_reply, ssl_enabled, ports_parsed, pos, ports_data,
                   line_data, payload, net, status, exc>>

\* lines 51-53
NoReply ==
    /\ pc = "get_optics_data"
    /\ xml_reply.kind = "None"
    /\ cli' = Append(cli, LogMessage(<<"Unable to get optics data with command">>))
    /\ data' = ReturnedNone
    /\ pc' = "main"
    /\ UNCHANGED <<xml_reply, ssl_enabled, ports_parsed, pos, ports_data,
                   line_data, payload, net, status, exc>>

\* lines 57-66
Parse ==
    /\ pc = "get_optics_data"
    /\ xml_reply.kind = "str"
    /\ LET ports_raw == PortsRaw(xml_reply)
       IN  IF ParseFails(ports_raw)
           THEN /\ exc' = "ParseError"
                /\ pc' = "raised"
                /\ UNCHANGED ports_parsed
           ELSE /\ ports_parsed' = PortsParsed(ports_raw)
                /\ pc' = "loop"
                /\ UNCHANGED exc
    /\ UNCHANGED <<xml_reply, ssl_enabled, pos, ports_data, data,
                   line_data, payload, cli, net, status>>

\* lines 68-94: one iteration of the loop
PortLoop ==
    /\ pc = "loop"
    /\ pos < Len(ports_parsed)
    /\ LET r == PortIteration(ports_parsed, pos + 1)
       IN  /\ pos' = r.pos
           /\ IF r.exc # ""
              THEN exc' = r.exc /\ pc' = "raised" /\ UNCHANGED ports_data
              ELSE /\ ports_data' = IF r.append THEN Append(ports_data, r.data)
                                    ELSE ports_data
                   /\ UNCHANGED <<exc, pc>>
    /\ UNCHANGED <<xml_reply, ssl_enabled, ports_parsed, data,
                   line_data, payload, cli, net, status>>

\* lines 68, 96, 194: the iterator is exhausted
Return ==
    /\ pc = "loop"
    /\ pos = Len(ports_parsed)
    /\ data' = Returned(ports_data)
    /\ pc' = "main"
    /\ UNCHANGED <<xml_reply, ssl_enabled, ports_parsed, pos, ports_data,
                   line_data, payload, cli, net, status, exc>>

\* line 196: `if data`
Truthy(d) == d.kind = "list" /\ d.ports # <<>>

\* line 196, data is None or empty: the script ends
NoData ==
    /\ pc = "main"
    /\ ~Truthy(data)
    /\ pc' = "done"
    /\ UNCHANGED <<xml_reply, ssl_enabled, ports_parsed, pos, ports_data, data,
                   line_data, payload, cli, net, status, exc>>

\* lines 196-197: the records are changed in place
Fix ==
    /\ pc = "main"
    /\ Truthy(data)
    /\ data' = Returned(FixExtremeInfValues(data.ports))
    /\ pc' = "encode"
    /\ UNCHANGED <<xml_reply, ssl_enabled, ports_parsed, pos, ports_data,
                   line_data, payload, cli, net, status, exc>>

\* line 198
Encode ==
    /\ pc = "encode"
    /\ \E porder \in PortKeyOrders, corder \in ChanKeyOrders :
          /\ line_data' = LineData(data.ports, device_name, porder, corder)
          /\ payload' = CreateLineprotocolData(line_data')
    /\ pc' = "post"
    /\ UNCHANGED <<xml_reply, ssl_enabled, ports_parsed, pos, ports_data, data,
                   cli, net, status, exc>>

\* line 199
Post ==
    /\ pc = "post"
    /\ \E fail_at \in 0..Len(Request(ssl_enabled, target_vr, payload)),
          resp \in Responses :
          LET r == PostInfluxData(influxdb_host, influxdb_port, target_vr,
                                  ssl_enabled, payload, fail_at, resp)
          IN  /\ net' = net \o r.net
              /\ cli' = cli \o r.cli
              /\ status' = r.status
              /\ exc' = r.exc
              /\ pc' = IF r.exc = "" THEN "done" ELSE "raised"
    /\ UNCHANGED <<xml_reply, ssl_enabled, ports_parsed, pos, ports_data, data,
                   line_data, payload>>

Next ==
    \/ CommandFailed
    \/ NoReply
    \/ Parse
    \/ PortLoop
    \/ Return
    \/ NoData
    \/ Fix
    \/ Encode
    \/ Post

Spec == Init /\ [][Next]_vars

----------------------------------------------------------------------------
(* The two pure stages on their own: fix_extreme_inf_values and            *)
(* create_lineprotocol_data applied to every list of PortRecords, up to    *)
(* the bounds, of the shape get_optics_data builds (lines 72-90).          *)

ChannelMaps(m) == [0..(m - 1) -> {ChannelOf(OneChan), ChannelOf(TwoChan)}]

PortRecords ==
    {[name |-> PortName(r), channels |-> <<>>] : r \in {<<"3">>, <<"2", ":", "5">>}}
    \cup
    {[name |-> PortName(r), channels |-> ch, temperature |-> "35.0", voltage |-> "3.3"] :
        r \in {<<"3">>, <<"2", ":", "5">>},
        ch \in UNION {ChannelMaps(m) : m \in 1..MaxChannels}}

InitEnc ==
    /\ xml_reply = [kind |-> "str", docs |-> <<>>]
    /\ ssl_enabled = FALSE
    /\ pc = "main"
    /\ ports_parsed = <<>>
    /\ pos = 0
    /\ data \in {Returned(ps) : ps \in SeqsUpTo(PortRecords, MaxPorts)}
    /\ ports_data = data.ports
    /\ line_data = <<>>
    /\ payload = ""
    /\ cli = <<>>
    /\ net = <<>>
    /\ status = 0
    /\ exc = ""

NextEnc ==
    \/ NoData
    \/ Fix
    \/ Encode

SpecEnc == InitEnc /\ [][NextEnc]_vars

----------------------------------------------------------------------------
(* Vocabulary of the claims *)

Terminated == pc \in {"done", "raised"}

Range(f) == {f[i] : i \in DOMAIN f}

IsLog(c) == c.verb = "create log message"

LogsHostPort(c) ==
    IsLog(c) /\ influxdb_host \in Range(c.parts) /\ influxdb_port \in Range(c.parts)

Sends == {i \in DOMAIN net : net[i].op = "send"}

\* the fragment carries an error string, or a part-number flag that is not "1"
ToBeSkipped(el) ==
    \/ Has(el, "portErrorString")
    \/ Has(el, "partNumberIsValid") /\ el["partNumberIsValid"] # "1"

\* a first fragment of a port: error free, flag "1", name and channel count there
ValidFirst(el) ==
    /\ ~Has(el, "portErrorString")
    /\ Has(el, "partNumberIsValid") /\ el["partNumberIsValid"] = "1"
    /\ Has(el, "port") /\ Has(el, "numChannels")

----------------------------------------------------------------------------
(* C1 *)

\* C1: a fragment that carries portErrorString, or whose partNumberIsValid is
\* not "1", is never among the fragments an iteration turns into a
\* PortRecord: neither as its first fragment nor as one of its channels.
C1_SkippedNeverStored ==
    [][ports_data' # ports_data =>
          \A i \in (pos + 1)..pos' : ~ToBeSkipped(ports_parsed[i])]_vars

----------------------------------------------------------------------------
(* C2 *)

\* C2: an iteration that starts on a valid first fragment with numChannels = n
\* (n >= 0) and completes has consumed exactly n fragments and appended a
\* PortRecord with the channels 0..n-1, each with the three field keys, and
\* with the temperature and voltage of the first fragment.
C2_ConsumesExactlyN ==
    [][(pc = "loop" /\ pc' = "loop" /\ pos < Len(ports_parsed)
        /\ ValidFirst(ports_parsed[pos + 1]))
       =>
       LET first == ports_parsed[pos + 1]
           n == ParseInt(first["numChannels"])
           rec == ports_data'[Len(ports_data')]
       IN  /\ Len(ports_data') = Len(ports_data) + 1
           /\ DOMAIN rec.channels = 0..(n - 1)
           /\ \A c \in DOMAIN rec.channels :
                 DOMAIN rec.channels[c] = {"tx-power", "rx-power", "tx-current"}
           /\ {"temperature", "voltage"} \subseteq DOMAIN rec
           /\ rec["temperature"] = first["temp"]
           /\ rec["voltage"] = first["voltageAux1"]
           /\ pos' = pos + n]_vars

\* C2 for n >= 1, where it holds: the n fragments are consumed and the
\* record has the channels 0..n-1, the temperature and the voltage.
C2_ForPositiveN ==
    [][(pc = "loop" /\ pc' = "loop" /\ pos < Len(ports_parsed)
        /\ ValidFirst(ports_parsed[pos + 1])
        /\ ParseInt(ports_parsed[pos + 1]["numChannels"]) >= 1)
       =>
       LET first == ports_parsed[pos + 1]
           n == ParseInt(first["numChannels"])
           rec == ports_data'[Len(ports_data')]
       IN  /\ Len(ports_data') = Len(ports_data) + 1
           /\ DOMAIN rec.channels = 0..(n - 1)
           /\ \A c \in DOMAIN rec.channels :
                 DOMAIN rec.channels[c] = {"tx-power", "rx-power", "tx-current"}
           /\ {"temperature", "voltage"} \subseteq DOMAIN rec
           /\ rec["temperature"] = first["temp"]
           /\ rec["voltage"] = first["voltageAux1"]
           /\ pos' = pos + n]_vars

----------------------------------------------------------------------------
(* C3 *)

\* what fix_extreme_inf_values is to make of one channel
FixedChannel(before, after) ==
    /\ DOMAIN after = DOMAIN before
    /\ after["rx-power"] = IF before["rx-power"] = INF THEN "-40.000000"
                           ELSE before["rx-power"]
    /\ after["tx-power"] = IF before["tx-power"] = INF THEN "0.00"
                           ELSE before["tx-power"]
    /\ after["tx-current"] = before["tx-current"]

\* C3: fix_extreme_inf_values finds the keys it reads in every channel of
\* every reader output (it cannot fail), maps rx-power -9999.000000 to
\* -40.000000 and tx-power -9999.000000 to 0.00 channel by channel, and leaves
\* every other value, tx-current, name, temperature, voltage, the ports and
\* the channel indices as they were.
C3_FixOnlySentinels ==
    [][(pc = "main" /\ pc' = "encode")
       =>
       LET before == data.ports
           after == data'.ports
       IN  /\ \A p \in DOMAIN before : \A c \in DOMAIN before[p].channels :
                 {"rx-power", "tx-power"} \subseteq DOMAIN before[p].channels[c]
           /\ DOMAIN after = DOMAIN before
           /\ \A p \in DOMAIN before :
                 /\ DOMAIN after[p] = DOMAIN before[p]
                 /\ \A k \in (DOMAIN before[p]) \ {"channels"} : after[p][k] = before[p][k]
                 /\ DOMAIN after[p].channels = DOMAIN before[p].channels
                 /\ \A c \in DOMAIN before[p].channels :
                       FixedChannel(before[p].channels[c], after[p].channels[c])]_vars

\* a port of two channels of which only channel 1 carried the rx-power
\* sentinel, and which carried the sentinel as tx-current, has been fixed
C3_Witness ==
    /\ pc = "encode"
    /\ \E p \in DOMAIN ports_data :
          /\ DOMAIN ports_data[p].channels = {0, 1}
          /\ ports_data[p].channels[0]["rx-power"] # INF
          /\ ports_data[p].channels[1]["rx-power"] = INF
          /\ ports_data[p].channels[0]["tx-current"] = INF
          /\ data.ports[p].channels[1]["rx-power"] = "-40.000000"
          /\ data.ports[p].channels[0]["tx-power"] = "0.00"

----------------------------------------------------------------------------
(* C4 *)

\* C4: for N ports of M channels each, line_data has N + N*M lines: the
\* optics line of port i, then its optics_channels lines for the channels
\* 0..M-1 in that order, port after port in input order; the text returned
\* is these lines with one "\n" between neighbours.
C4_LinesInOrder ==
    (pc = "post")
    =>
    LET ports == data.ports
        N == Len(ports)
    IN  \A M \in 0..(MaxChannels + 1) :
           (\A i \in 1..N : DOMAIN ports[i].channels = 0..(M - 1))
           =>
           /\ Len(line_data) = N + N * M
           /\ \A i \in 1..N :
                 LET at == (i - 1) * (M + 1) + 1
                     tags == "device=" \o device_name \o ",port=" \o Concat(ports[i].name)
                 IN  /\ line_data[at].measurement = "optics"
                     /\ line_data[at].tags = tags
                     /\ \A c \in 0..(M - 1) :
                           /\ line_data[at + 1 + c].measurement = "optics_channels"
                           /\ line_data[at + 1 + c].tags =
                                 tags \o ",channel=" \o ToString(c)
           /\ payload = Join("\n", [k \in 1..Len(line_data) |->
                                      line_data[k].measurement \o "," \o line_data[k].tags
                                      \o " " \o line_data[k].fields])

\* two ports of two channels each have been encoded
C4_Witness ==
    /\ pc = "post"
    /\ Len(data.ports) = 2
    /\ \A i \in 1..2 : DOMAIN data.ports[i].channels = {0, 1}
    /\ data.ports[1].name # data.ports[2].name
    /\ Len(line_data) = 6

----------------------------------------------------------------------------
(* C5 *)

\* C5: every line has the layout of the specification: the port line of port
\* p is optics,device=<d>,port=<name> temperature=<t>,voltage=<v>, and the
\* line of its channel c is optics_channels,device=<d>,port=<name>,channel=<c>
\* tx-power=<..>,rx-power=<..>,tx-current=<..>.
C5_FixedLayout ==
    (pc = "post")
    =>
    \A k \in DOMAIN line_data :
       \E p \in DOMAIN data.ports :
          LET port == data.ports[p]
              head == "device=" \o device_name \o ",port=" \o Concat(port.name)
          IN  \/ /\ {"temperature", "voltage"} \subseteq DOMAIN port
                 /\ LineText(line_data[k]) =
                       "optics," \o head \o " temperature=" \o port["temperature"]
                       \o ",voltage=" \o port["voltage"]
              \/ \E c \in DOMAIN port.channels :
                    LineText(line_data[k]) =
                       "optics_channels," \o head \o ",channel=" \o ToString(c)
                       \o " tx-power=" \o port.channels[c]["tx-power"]
                       \o ",rx-power=" \o port.channels[c]["rx-power"]
                       \o ",tx-current=" \o port.channels[c]["tx-current"]

----------------------------------------------------------------------------
(* C6 *)

\* C6: a 204 leaves no log message; any other status leaves exactly one, which
\* names host and port, and the call returns; never more than one POST is sent.
C6_StatusContract ==
    /\ Cardinality(Sends) <= 1
    /\ status = 204 => cli = <<>> /\ pc = "done"
    /\ status \notin {0, 204} =>
          /\ Len(cli) = 1
          /\ LogsHostPort(cli[1])
          /\ pc = "done" /\ exc = ""
          /\ Cardinality(Sends) = 1

\* the server answered 400 to the one POST
C6_Witness ==
    /\ pc = "done"
    /\ status = 400
    /\ Cardinality(Sends) = 1

----------------------------------------------------------------------------
(* C7 *)

\* C7: whichever step of the exchange fails, the failure is logged with host
\* and port and post_influx_data returns: no exception escapes.
C7_NoExceptionEscapes ==
    (\E i \in DOMAIN net : ~net[i].ok)
    =>
    /\ exc = ""
    /\ pc = "done"
    /\ \E j \in DOMAIN cli : LogsHostPort(cli[j])

----------------------------------------------------------------------------
(* C8 *)

OpsAt(op) == {i \in DOMAIN net : net[i].op = op}

\* C8: whenever a POST is sent, the socket was bound to target_vr before the
\* connect, the connect came before the TLS negotiation (when ssl_enabled),
\* and all of them before the send; a connection is bound exactly once, and
\* TLS is never negotiated before the connect.
C8_BindConnectTlsSend ==
    /\ \A s \in Sends :
          \E b, c \in 1..(s - 1) :
             /\ b < c
             /\ net[b].op = "setsockopt"
             /\ net[b].arg = <<EXTREME_SO_VRID, target_vr>>
             /\ net[c].op = "connect"
             /\ ssl_enabled => \E t \in (c + 1)..(s - 1) : net[t].op = "wrap_socket"
    /\ \A c \in OpsAt("connect") :
          Cardinality({b \in OpsAt("setsockopt") : b < c}) = 1
    /\ Cardinality(OpsAt("setsockopt")) <= 1
    /\ \A t \in OpsAt("wrap_socket") : \E c \in OpsAt("connect") : c < t

\* a POST went out over TLS
C8_Witness ==
    /\ ssl_enabled
    /\ Sends # {}
    /\ OpsAt("wrap_socket") # {}

----------------------------------------------------------------------------
(* C9 *)

SourceUnavailable ==
    \/ xml_reply.kind \in {"RuntimeError", "None"}
    \/ xml_reply.kind = "str" /\ xml_reply.docs = <<>>

\* C9: when the command raises, or returns no reply or a reply of zero
\* documents, the run ends having logged a failure message and without a
\* network call.
C9_SourceUnavailable ==
    (SourceUnavailable /\ Terminated)
    =>
    /\ \E j \in DOMAIN cli : IsLog(cli[j])
    /\ net = <<>>

----------------------------------------------------------------------------
(* C10 *)

LacksMetric(el) == \E m \in DOMAIN METRICS : ~Has(el, m)

\* The reply, read as the specification groups it (first fragment, then
\* numChannels - 1 more), from fragment i on: a field that is read where it
\* is needed is missing, or the fragments end inside a port.
RECURSIVE ReadFails(_, _)
ReadFails(els, i) ==
    IF i > Len(els) THEN FALSE
    ELSE LET el == els[i] IN
      IF DOMAIN el = {} \/ Has(el, "portErrorString") THEN ReadFails(els, i + 1)
      ELSE IF ~Has(el, "partNumberIsValid") THEN TRUE
      ELSE IF el["partNumberIsValid"] # "1" THEN ReadFails(els, i + 1)
      ELSE IF ~Has(el, "port") \/ ~Has(el, "numChannels") THEN TRUE
      ELSE LET n == ParseInt(el["numChannels"]) IN
        IF n = 0 THEN ReadFails(els, i + 1)
        ELSE IF ~Has(el, "temp") \/ ~Has(el, "voltageAux1") THEN TRUE
        ELSE IF \E j \in i..(i + n - 1) : j > Len(els) \/ LacksMetric(els[j]) THEN TRUE
        ELSE ReadFails(els, i + n)

FatalReply ==
    /\ xml_reply.kind = "str"
    /\ \/ ParseFails(PortsRaw(xml_reply))
       \/ ReadFails(PortsParsed(PortsRaw(xml_reply)), 1)

\* some fragment of the reply lacks one of the eight expected fields
LacksExpectedField ==
    /\ xml_reply.kind = "str"
    /\ \E i \in DOMAIN xml_reply.docs :
          /\ xml_reply.docs[i].xml = "ok"
          /\ ~(ExpectedFields \subseteq DOMAIN xml_reply.docs[i].el)

Aborted ==
    /\ data.kind # "list"
    /\ net = <<>>
    /\ Terminated => pc = "raised" /\ exc # ""

\* C10 as stated: a fragment that does not parse, a fragment lacking any
\* expected field, or fragments ending inside a port abort the run: no
\* PortRecord is returned and no request is sent.
C10_AnyMissingFieldAborts ==
    (FatalReply \/ LacksExpectedField) => Aborted

\* C10 as amended: a fragment that does not parse, a missing field where the
\* reader reads it, or fragments ending inside a port abort the run: no
\* PortRecord is returned, not even of the ports read before, and no request
\* is sent.
C10_ReadFailureAborts ==
    FatalReply => Aborted

\* the run was aborted after a port had been read in full
C10_Witness ==
    /\ pc = "raised"
    /\ FatalReply
    /\ ports_data # <<>>
    /\ exc \in {"IndexError", "StopIteration"}

====
